---- MODULE Spec2Model ----
(***************************************************************************)
(* Model of src/main.py: PhoneBookEntry (field validation/normalisation)   *)
(* and PhoneBook (in-memory list of entries synchronised with a JSON file).*)
(*                                                                         *)
(* A Python str is a sequence of one-character strings; None is the token  *)
(* sequence None below (never equal to a str).  A raised exception is a    *)
(* result record with ok = FALSE.                                          *)
(***************************************************************************)
EXTENDS Integers, Sequences, FiniteSets, TLC

\* ---------------------------------------------------------------- bounds
MaxEntries == 2

\* ------------------------------------------------------- characters, str
None == <<"<None>">>

LowerLetters == <<"a","b","c","d","e","f","g","h","i","j","k","l","m",
                  "n","o","p","q","r","s","t","u","v","w","x","y","z">>
UpperLetters == <<"A","B","C","D","E","F","G","H","I","J","K","L","M",
                  "N","O","P","Q","R","S","T","U","V","W","X","Y","Z">>
DigitChars == <<"0","1","2","3","4","5","6","7","8","9">>
Whitespace == {" ", "\n", "\t", "\r"}

Range(f) == {f[i] : i \in DOMAIN f}
IsDigit(c) == c \in Range(DigitChars)
DigitVal(c) == (CHOOSE i \in DOMAIN DigitChars : DigitChars[i] = c) - 1

\* str.upper() / str.lower() on one character
upperChar(c) ==
    IF c \in Range(LowerLetters)
    THEN UpperLetters[CHOOSE i \in DOMAIN LowerLetters : LowerLetters[i] = c]
    ELSE c
lowerChar(c) ==
    IF c \in Range(UpperLetters)
    THEN LowerLetters[CHOOSE i \in DOMAIN UpperLetters : UpperLetters[i] = c]
    ELSE c
upper(s) == [i \in DOMAIN s |-> upperChar(s[i])]
lower(s) == [i \in DOMAIN s |-> lowerChar(s[i])]

\* Python truthiness of a str-or-None value
Truthy(s) == s # None /\ s # <<>>

\* results of a call that may raise
Ok(v) == [ok |-> TRUE, val |-> v]
Raise == [ok |-> FALSE, val |-> <<>>]

\* ---------------------------------------------------------- PhoneBookEntry
\* re.match("^[a-zA-Z0-9 ]+$", text): '$' also matches before a final newline
IsNameChar(c) ==
    c \in Range(LowerLetters) \cup Range(UpperLetters) \cup Range(DigitChars) \cup {" "}
NameRegexMatch(text) ==
    \/ Len(text) >= 1 /\ \A i \in 1..Len(text) : IsNameChar(text[i])
    \/ Len(text) >= 2 /\ text[Len(text)] = "\n"
                      /\ \A i \in 1..(Len(text) - 1) : IsNameChar(text[i])

capitalize_first(text) ==
    IF ~Truthy(text) THEN Raise
    ELSE IF ~NameRegexMatch(text) THEN Raise
    ELSE Ok(<<upperChar(text[1])>> \o lower(Tail(text)))

\* str.strip()
RECURSIVE lstrip(_)
lstrip(s) == IF s # <<>> /\ s[1] \in Whitespace THEN lstrip(Tail(s)) ELSE s
RECURSIVE rstrip(_)
rstrip(s) ==
    IF s # <<>> /\ s[Len(s)] \in Whitespace THEN rstrip(SubSeq(s, 1, Len(s) - 1)) ELSE s
strip(s) == rstrip(lstrip(s))

\* str.replace('+7', '8')
RECURSIVE replacePlus7(_)
replacePlus7(s) ==
    IF Len(s) < 2 THEN s
    ELSE IF s[1] = "+" /\ s[2] = "7" THEN <<"8">> \o replacePlus7(SubSeq(s, 3, Len(s)))
    ELSE <<s[1]>> \o replacePlus7(Tail(s))

\* re.match("^[0-9]{11}$", phone)
PhoneRegexMatch(p) ==
    \/ Len(p) = 11 /\ \A i \in 1..11 : IsDigit(p[i])
    \/ Len(p) = 12 /\ p[12] = "\n" /\ \A i \in 1..11 : IsDigit(p[i])

_format_phone(phone) ==
    LET p == replacePlus7(strip(phone))
    IN IF ~PhoneRegexMatch(p) THEN Raise ELSE Ok(p)

\* ---- datetime.strptime(s, "%d.%m.%Y")
\* first position of "." in s, 0 when there is none
DotPos(s) ==
    IF \E i \in 1..Len(s) : s[i] = "."
    THEN CHOOSE i \in 1..Len(s) : s[i] = "." /\ \A j \in 1..(i - 1) : s[j] # "."
    ELSE 0
NonZeroDigit(c) == IsDigit(c) /\ c # "0"
\* %d : 3[0-1]|[1-2]\d|0[1-9]|[1-9]| [1-9]
DayFieldMatch(f) ==
    \/ Len(f) = 2 /\ f[1] = "3" /\ f[2] \in {"0", "1"}
    \/ Len(f) = 2 /\ f[1] \in {"1", "2"} /\ IsDigit(f[2])
    \/ Len(f) = 2 /\ f[1] \in {"0", " "} /\ NonZeroDigit(f[2])
    \/ Len(f) = 1 /\ NonZeroDigit(f[1])
\* %m : 1[0-2]|0[1-9]|[1-9]
MonthFieldMatch(f) ==
    \/ Len(f) = 2 /\ f[1] = "1" /\ f[2] \in {"0", "1", "2"}
    \/ Len(f) = 2 /\ f[1] = "0" /\ NonZeroDigit(f[2])
    \/ Len(f) = 1 /\ NonZeroDigit(f[1])
\* %Y : \d\d\d\d
YearFieldMatch(f) == Len(f) = 4 /\ \A i \in 1..4 : IsDigit(f[i])
RECURSIVE ToInt(_)
ToInt(f) ==
    IF f = <<>> THEN 0
    ELSE IF f[Len(f)] = " " THEN 0
    ELSE 10 * ToInt(SubSeq(f, 1, Len(f) - 1)) + DigitVal(f[Len(f)])

IsLeap(y) == (y % 4 = 0 /\ y % 100 # 0) \/ y % 400 = 0
DaysInMonth(y, m) ==
    IF m = 2 THEN (IF IsLeap(y) THEN 29 ELSE 28)
    ELSE IF m \in {4, 6, 9, 11} THEN 30 ELSE 31

strptime(s) ==
    LET p1 == DotPos(s)
        rest1 == IF p1 = 0 THEN <<>> ELSE SubSeq(s, p1 + 1, Len(s))
        p2 == DotPos(rest1)
        dF == IF p1 = 0 THEN <<>> ELSE SubSeq(s, 1, p1 - 1)
        mF == IF p2 = 0 THEN <<>> ELSE SubSeq(rest1, 1, p2 - 1)
        yF == IF p2 = 0 THEN <<>> ELSE SubSeq(rest1, p2 + 1, Len(rest1))
        date == [day |-> ToInt(dF), month |-> ToInt(mF), year |-> ToInt(yF)]
    IN IF p1 = 0 \/ p2 = 0 THEN Raise
       ELSE IF ~(DayFieldMatch(dF) /\ MonthFieldMatch(mF) /\ YearFieldMatch(yF)) THEN Raise
       ELSE IF date.year < 1 \/ date.day > DaysInMonth(date.year, date.month) THEN Raise
       ELSE Ok(date)

\* ---- datetime.strftime("%d.%m.%Y")
RECURSIVE Digits(_)
Digits(n) == IF n < 10 THEN <<DigitChars[n + 1]>>
             ELSE Digits(n \div 10) \o <<DigitChars[(n % 10) + 1]>>
RECURSIVE ZeroPad(_, _)
ZeroPad(f, width) == IF Len(f) >= width THEN f ELSE ZeroPad(<<"0">> \o f, width)
\* %Y is handed to the C library: it is zero-padded to four digits on some
\* builds and printed without padding on others (padYear is the build's choice)
strftime(date, padYear) ==
    ZeroPad(Digits(date.day), 2) \o <<".">> \o ZeroPad(Digits(date.month), 2) \o <<".">>
        \o (IF padYear THEN ZeroPad(Digits(date.year), 4) ELSE Digits(date.year))

_validate_date(date_str, padYear) ==
    LET d == strptime(date_str)
    IN IF ~d.ok THEN Raise ELSE Ok(strftime(d.val, padYear))

\* PhoneBookEntry.__init__: the fields are validated in order; any failure raises
NewEntry(name, surname, phone, birthdate, padYear) ==
    LET n == capitalize_first(name)
        s == capitalize_first(surname)
        p == _format_phone(phone)
        b == IF Truthy(birthdate) THEN _validate_date(birthdate, padYear) ELSE Ok(None)
    IN IF ~n.ok \/ ~s.ok \/ ~p.ok \/ ~b.ok THEN Raise
       ELSE Ok([name |-> n.val, surname |-> s.val, phone |-> p.val, birthdate |-> b.val])

to_dict(e) ==
    [name |-> e.name, surname |-> e.surname, phone |-> e.phone, birthdate |-> e.birthdate]
from_dict(data, padYear) ==
    NewEntry(data.name, data.surname, data.phone, data.birthdate, padYear)

\* ----------------------------------------------------------------- PhoneBook
VARIABLES
    entries,   \* self.entries: the in-memory list of PhoneBookEntry objects
    store,     \* content of the JSON file: a list of dicts
    padYear,   \* whether this build's strftime pads %Y to four digits
    last       \* the last call made on the PhoneBook and how it ended

vars == <<entries, store, padYear, last>>

\* json.dump([entry.to_dict() for entry in self.entries], file)
save_to_file(es) == [i \in DOMAIN es |-> to_dict(es[i])]

\* json.load(file) followed by from_dict on every element; a ValueError of the
\* constructor is not caught by `except json.JSONDecodeError`
load_from_file(data, pad) ==
    IF \A i \in DOMAIN data : from_dict(data[i], pad).ok
    THEN Ok([i \in DOMAIN data |-> from_dict(data[i], pad).val])
    ELSE Raise

\* find_entry with the phone criterion left out
find_entry_no_phone(es, name, surname, phone, birthdate) ==
    LET byName(e) == lower(e.name) = lower(name)
        r1 == IF Truthy(name) THEN SelectSeq(es, byName) ELSE es
        bySurname(e) == lower(e.surname) = lower(surname)
        r2 == IF Truthy(surname) THEN SelectSeq(r1, bySurname) ELSE r1
        byBirthdate(e) == e.birthdate = birthdate
    IN IF Truthy(birthdate) THEN SelectSeq(r2, byBirthdate) ELSE r2

\* find_entry: each criterion filters only when it is truthy
find_entry(es, name, surname, phone, birthdate) ==
    LET r0 == es
        byName(e) == lower(e.name) = lower(name)
        r1 == IF Truthy(name) THEN SelectSeq(r0, byName) ELSE r0
        bySurname(e) == lower(e.surname) = lower(surname)
        r2 == IF Truthy(surname) THEN SelectSeq(r1, bySurname) ELSE r1
        byPhone(e) == e.phone = phone
        r3 == IF Truthy(phone) THEN SelectSeq(r2, byPhone) ELSE r2
        byBirthdate(e) == e.birthdate = birthdate
        r4 == IF Truthy(birthdate) THEN SelectSeq(r3, byBirthdate) ELSE r3
    IN r4

\* position in es of entries[0] of find_entry(name, surname): the first entry
\* that passes the name and surname filters (0 when the result is empty)
FirstFound(es, name, surname) ==
    LET hit(i) == find_entry(<<es[i]>>, name, surname, None, None) # <<>>
    IN IF \E i \in DOMAIN es : hit(i)
       THEN CHOOSE i \in DOMAIN es : hit(i) /\ \A j \in 1..(i - 1) : ~hit(j)
       ELSE 0

RemoveAt(es, i) == SubSeq(es, 1, i - 1) \o SubSeq(es, i + 1, Len(es))

\* Outcome of a call: the error raised ("ok" when it returns), the value
\* returned (a list by find_entry, <<>> otherwise; a number by get_age, 0
\* otherwise), and the list and file it leaves behind.
Outcome(err, found, age, es, st) ==
    [err |-> err, found |-> found, age |-> age, entries |-> es, store |-> st]

add_entry(es, st, pad, name, surname, phone, birthdate) ==
    LET entry == NewEntry(name, surname, phone, birthdate, pad)
    IN IF find_entry(es, name, surname, None, None) # <<>>
       THEN Outcome("DuplicateError", <<>>, 0, es, st)
       ELSE IF ~entry.ok THEN Outcome("ValidationError", <<>>, 0, es, st)
       ELSE Outcome("ok", <<>>, 0, Append(es, entry.val), save_to_file(Append(es, entry.val)))

delete_entry(es, st, name, surname) ==
    LET found == find_entry(es, name, surname, None, None)
        es2 == RemoveAt(es, FirstFound(es, name, surname))
    IN IF found = <<>> THEN Outcome("NotFoundError", <<>>, 0, es, st)
       ELSE Outcome("ok", <<>>, 0, es2, save_to_file(es2))

\* a fieldChanges dict is a record over the four keys; Absent marks a missing key
Absent == <<"<absent>">>

\* update_entry assigns field after field to the found object; a validator
\* that raises leaves the earlier assignments in place and skips the save
update_entry(es, st, pad, name, surname, new_data) ==
    LET found == find_entry(es, name, surname, None, None)
        k == FirstFound(es, name, surname)
        e0 == es[k]
        n == capitalize_first(new_data.name)
        e1 == IF new_data.name # Absent /\ n.ok THEN [e0 EXCEPT !.name = n.val] ELSE e0
        f1 == new_data.name # Absent /\ ~n.ok
        s == capitalize_first(new_data.surname)
        e2 == IF ~f1 /\ new_data.surname # Absent /\ s.ok
              THEN [e1 EXCEPT !.surname = s.val] ELSE e1
        f2 == f1 \/ (new_data.surname # Absent /\ ~s.ok)
        p == _format_phone(new_data.phone)
        e3 == IF ~f2 /\ new_data.phone # Absent /\ p.ok
              THEN [e2 EXCEPT !.phone = p.val] ELSE e2
        f3 == f2 \/ (new_data.phone # Absent /\ ~p.ok)
        b == _validate_date(new_data.birthdate, pad)
        e4 == IF ~f3 /\ new_data.birthdate # Absent /\ b.ok
              THEN [e3 EXCEPT !.birthdate = b.val] ELSE e3
        f4 == f3 \/ (new_data.birthdate # Absent /\ ~b.ok)
        es2 == [es EXCEPT ![k] = e4]
    IN IF found = <<>> THEN Outcome("NotFoundError", <<>>, 0, es, st)
       ELSE IF f4 THEN Outcome("ValidationError", <<>>, 0, es2, st)
       ELSE Outcome("ok", <<>>, 0, es2, save_to_file(es2))

\* a call of find_entry: it returns its result and assigns nothing
find(es, st, name, surname, phone, birthdate) ==
    Outcome("ok", find_entry(es, name, surname, phone, birthdate), 0, es, st)

\* get_age: today is datetime.now() as a date; a stored birthdate that
\* strptime rejects raises its ValueError out of get_age
get_age(es, st, name, surname, today) ==
    LET found == find_entry(es, name, surname, None, None)
        birthdate == strptime(found[1].birthdate)
        age == today.year - birthdate.val.year
        before == \/ today.month < birthdate.val.month
                  \/ (today.month = birthdate.val.month /\ today.day < birthdate.val.day)
    IN IF found = <<>> THEN Outcome("NotFoundError", <<>>, 0, es, st)
       ELSE IF ~Truthy(found[1].birthdate) THEN Outcome("NotFoundError", <<>>, 0, es, st)
       ELSE IF ~birthdate.ok THEN Outcome("ValueError", <<>>, 0, es, st)
       ELSE Outcome("ok", <<>>, IF before THEN age - 1 ELSE age, es, st)

\* ------------------------------------------------------------------ inputs
\* str literals used as arguments
Empty == <<>>
aB == <<"a","B">>
cNl == <<"c","\n">>
aBang == <<"a","!">>
pQ == <<"p","Q">>
r == <<"r">>
Plus7Phone == <<"+","7","9","1","6","1","2","3","4","5","6","7">>
SpacePhone == <<" ","8","0","0","0","0","0","0","0","0","0","0">>
ShortPhone == <<"1","2","3">>
Phone8916 == <<"8","9","1","6","1","2","3","4","5","6","7">>
Date2000 == <<"1","5",".","0","6",".","2","0","0","0">>
Date999 == <<"1",".","6",".","0","9","9","9">>
DateFeb29 == <<"2","9",".","0","2",".","2","0","0","1">>

NoChange == [name |-> Absent, surname |-> Absent, phone |-> Absent, birthdate |-> Absent]

\* arguments of the calls on the name/surname/phone side of the book
CoreArgs ==
    [names |-> {Empty, aB, cNl, aBang},
     surnames |-> {Empty, pQ, r},
     phones |-> {Plus7Phone, ShortPhone},
     birthdates |-> {None, DateFeb29},
     lookNames |-> {Empty, aB, cNl},
     lookSurnames |-> {Empty, pQ, r},
     newData |-> {NoChange,
                  [NoChange EXCEPT !.name = aB],
                  [NoChange EXCEPT !.name = aBang],
                  [NoChange EXCEPT !.surname = r],
                  [NoChange EXCEPT !.name = aB, !.phone = ShortPhone],
                  [NoChange EXCEPT !.surname = r, !.birthdate = DateFeb29]},
     todays |-> {[day |-> 14, month |-> 6, year |-> 2024]}]

\* arguments of the calls on the birthdate side of the book
DateArgs ==
    [names |-> {aB, cNl},
     surnames |-> {pQ},
     phones |-> {Plus7Phone},
     birthdates |-> {None, Date2000, Date999, DateFeb29},
     lookNames |-> {Empty, aB, cNl},
     lookSurnames |-> {pQ},
     newData |-> {[NoChange EXCEPT !.phone = SpacePhone],
                  [NoChange EXCEPT !.birthdate = Date2000],
                  [NoChange EXCEPT !.birthdate = Date999],
                  [NoChange EXCEPT !.birthdate = DateFeb29]},
     todays |-> {[day |-> 14, month |-> 6, year |-> 2024],
                 [day |-> 15, month |-> 6, year |-> 2024],
                 [day |-> 16, month |-> 6, year |-> 2024],
                 [day |-> 20, month |-> 5, year |-> 2024],
                 [day |-> 1, month |-> 7, year |-> 2024]}]

\* arguments of find_entry, and of the calls that wrote the file it starts from
FindArgs ==
    [saved |-> {<<aB, pQ, Plus7Phone, Date2000>>,
                <<aB, pQ, SpacePhone, None>>,
                <<aB, r, SpacePhone, None>>,
                <<cNl, pQ, Plus7Phone, None>>,
                <<cNl, r, SpacePhone, Date2000>>},
     lookNames |-> {None, Empty, aB, cNl},
     lookSurnames |-> {None, pQ, r},
     findPhones |-> {None, Phone8916, Plus7Phone},
     findBirthdates |-> {None, Date2000}]

\* ----------------------------------------------------------------- actions
Call(op, name, surname, res) ==
    /\ entries' = res.entries
    /\ store' = res.store
    /\ last' = [op |-> op, name |-> name, surname |-> surname,
                err |-> res.err, found |-> res.found, age |-> res.age]
    /\ UNCHANGED padYear

\* PhoneBook() on a path with no file: an empty list and a file holding []
Init ==
    /\ entries = <<>>
    /\ store = <<>>
    /\ padYear \in BOOLEAN
    /\ last = [op |-> "init", name |-> None, surname |-> None,
               err |-> "ok", found |-> <<>>, age |-> 0]

\* PhoneBook() on a path whose file was written by earlier sessions: the file
\* holds up to MaxEntries dicts of entries built from the arguments A.saved
SavedEntries(A, pad) ==
    {NewEntry(t[1], t[2], t[3], t[4], pad).val : t \in A.saved}
InitFromFile(A) ==
    /\ padYear \in BOOLEAN
    /\ store \in UNION {[1..n -> {to_dict(e) : e \in SavedEntries(A, padYear)}] :
                            n \in 0..MaxEntries}
    /\ entries = load_from_file(store, padYear).val
    /\ last = [op |-> "init", name |-> None, surname |-> None,
               err |-> "ok", found |-> <<>>, age |-> 0]

AddCall(name, surname, phone, birthdate) ==
    /\ Len(entries) < MaxEntries
    /\ Call("add", name, surname, add_entry(entries, store, padYear, name, surname, phone, birthdate))
Add(A) ==
    \E name \in A.names, surname \in A.surnames, phone \in A.phones,
       birthdate \in A.birthdates :
        AddCall(name, surname, phone, birthdate)

DeleteCall(name, surname) ==
    Call("delete", name, surname, delete_entry(entries, store, name, surname))
Delete(A) ==
    \E name \in A.lookNames, surname \in A.lookSurnames : DeleteCall(name, surname)

UpdateCall(name, surname, new_data) ==
    Call("update", name, surname, update_entry(entries, store, padYear, name, surname, new_data))
Update(A) ==
    \E name \in A.lookNames, surname \in A.lookSurnames, new_data \in A.newData :
        UpdateCall(name, surname, new_data)

GetAgeCall(name, surname, today) ==
    Call("get_age", name, surname, get_age(entries, store, name, surname, today))
GetAge(A) ==
    \E name \in A.lookNames, surname \in A.lookSurnames, today \in A.todays :
        GetAgeCall(name, surname, today)

FindCall(name, surname, phone, birthdate) ==
    Call("find", name, surname, find(entries, store, name, surname, phone, birthdate))
Find(A) ==
    \E name \in A.lookNames, surname \in A.lookSurnames,
       phone \in A.findPhones, birthdate \in A.findBirthdates :
        FindCall(name, surname, phone, birthdate)

Next == Add(CoreArgs) \/ Delete(CoreArgs) \/ Update(CoreArgs) \/ GetAge(CoreArgs)
Spec == Init /\ [][Next]_vars

NextDates == Add(DateArgs) \/ Delete(DateArgs) \/ Update(DateArgs) \/ GetAge(DateArgs)
SpecDates == Init /\ [][NextDates]_vars

NextFind == Find(FindArgs)
SpecFind == InitFromFile(FindArgs) /\ [][NextFind]_vars

\* ================================================================== claims
\* e carries exactly this name and this surname, compared case-insensitively
SamePerson(e, name, surname) ==
    lower(e.name) = lower(name) /\ lower(e.surname) = lower(surname)
Holds(es, name, surname) == \E i \in DOMAIN es : SamePerson(es[i], name, surname)
\* the first entry of es that carries this name and surname
IsFirstOf(es, k, name, surname) ==
    /\ k \in DOMAIN es
    /\ SamePerson(es[k], name, surname)
    /\ \A j \in 1..(k - 1) : ~SamePerson(es[j], name, surname)
Mutations == {"add", "update", "delete"}

\* C1: no two entries of the list have the same (name, surname) pair,
\* compared case-insensitively.
C1_Unique ==
    \A i, j \in DOMAIN entries :
        i # j => ~SamePerson(entries[i], entries[j].name, entries[j].surname)

\* C2: a call of add, update, delete or get_age that ends with an error leaves
\* the list exactly as it was before the call.
C2_NoPartialMutation ==
    [][(last'.op \in Mutations \cup {"get_age"} /\ last'.err # "ok")
          => entries' = entries]_vars

\* C3: add fails with DuplicateError, adding nothing, whenever the list holds
\* an entry with the given name and surname (case-insensitively), and it fails
\* with DuplicateError only then.
C3_DuplicateExactly ==
    [][\A name \in CoreArgs.names, surname \in CoreArgs.surnames,
          phone \in CoreArgs.phones, birthdate \in CoreArgs.birthdates :
            AddCall(name, surname, phone, birthdate) =>
                /\ Holds(entries, name, surname)
                      => (last'.err = "DuplicateError" /\ entries' = entries)
                /\ last'.err = "DuplicateError" => Holds(entries, name, surname)]_vars

\* C4: for every (name, surname), empty strings included, that no entry of the
\* list carries, delete, update and get_age fail with NotFoundError and leave
\* the list and the file unchanged.
C4_NotFound ==
    [][\A name \in CoreArgs.lookNames, surname \in CoreArgs.lookSurnames :
          ~Holds(entries, name, surname) =>
              /\ DeleteCall(name, surname)
                    => (last'.err = "NotFoundError" /\ UNCHANGED <<entries, store>>)
              /\ \A new_data \in CoreArgs.newData :
                    UpdateCall(name, surname, new_data)
                        => (last'.err = "NotFoundError" /\ UNCHANGED <<entries, store>>)
              /\ \A today \in CoreArgs.todays :
                    GetAgeCall(name, surname, today)
                        => (last'.err = "NotFoundError" /\ UNCHANGED <<entries, store>>)]_vars

\* C5: after every successful add, update or delete, loading the file gives a
\* list identical to the one in memory.
C5_RoundTrip ==
    (last.op \in Mutations /\ last.err = "ok")
        => load_from_file(store, padYear) = Ok(entries)

\* C6: a successful update changes only the fields named in fieldChanges, and
\* only on the first entry carrying the given name and surname; every other
\* entry, the number of entries and their order are unchanged.
C6_UpdateFrame ==
    [][\A name \in CoreArgs.lookNames, surname \in CoreArgs.lookSurnames,
          new_data \in CoreArgs.newData :
            (UpdateCall(name, surname, new_data) /\ last'.err = "ok") =>
                /\ Len(entries') = Len(entries)
                /\ \E k \in DOMAIN entries :
                      /\ IsFirstOf(entries, k, name, surname)
                      /\ \A i \in DOMAIN entries : i # k => entries'[i] = entries[i]
                      /\ new_data.name = Absent => entries'[k].name = entries[k].name
                      /\ new_data.surname = Absent
                            => entries'[k].surname = entries[k].surname
                      /\ new_data.phone = Absent => entries'[k].phone = entries[k].phone
                      /\ new_data.birthdate = Absent
                            => entries'[k].birthdate = entries[k].birthdate]_vars

\* C7: find returns exactly the entries that satisfy every supplied non-empty
\* criterion (name and surname case-insensitively, phone and birthdate as the
\* stored strings), in list order; with no criteria it returns the whole
\* list; and it changes neither the list nor the file.
Satisfies(e, name, surname, phone, birthdate) ==
    /\ Truthy(name) => lower(e.name) = lower(name)
    /\ Truthy(surname) => lower(e.surname) = lower(surname)
    /\ Truthy(phone) => e.phone = phone
    /\ Truthy(birthdate) => e.birthdate = birthdate
RECURSIVE Matching(_, _, _, _, _)
Matching(es, name, surname, phone, birthdate) ==
    IF es = <<>> THEN <<>>
    ELSE (IF Satisfies(Head(es), name, surname, phone, birthdate)
          THEN <<Head(es)>> ELSE <<>>)
         \o Matching(Tail(es), name, surname, phone, birthdate)
C7_FindExact ==
    \A name \in FindArgs.lookNames, surname \in FindArgs.lookSurnames,
       phone \in FindArgs.findPhones, birthdate \in FindArgs.findBirthdates :
        LET res == find(entries, store, name, surname, phone, birthdate)
        IN /\ res.err = "ok"
           /\ res.found = Matching(entries, name, surname, phone, birthdate)
           /\ (~Truthy(name) /\ ~Truthy(surname) /\ ~Truthy(phone)
                 /\ ~Truthy(birthdate)) => res.found = entries
           /\ res.entries = entries
           /\ res.store = store
\* a find that kept some entries and dropped others
C7_Witness ==
    last.op = "find" /\ last.found # <<>> /\ Len(last.found) < Len(entries)

\* C8: get_age on an entry with a birthdate returns the current year minus the
\* birth year, minus one exactly when the current (month, day) is earlier than
\* the birth (month, day); on an entry without a birthdate it fails with
\* NotFoundError; it never changes the list.
\* day, month, year written in a stored birthdate
RECURSIVE DateFields(_)
DateFields(b) ==
    IF DotPos(b) = 0 THEN <<ToInt(b)>>
    ELSE <<ToInt(SubSeq(b, 1, DotPos(b) - 1))>> \o DateFields(SubSeq(b, DotPos(b) + 1, Len(b)))
AgeOn(b, today) ==
    LET f == DateFields(b)
        earlier == today.month < f[2] \/ (today.month = f[2] /\ today.day < f[1])
    IN (today.year - f[3]) - (IF earlier THEN 1 ELSE 0)
C8_Age ==
    [][\A name \in DateArgs.lookNames, surname \in DateArgs.lookSurnames,
          today \in DateArgs.todays :
            GetAgeCall(name, surname, today) =>
                /\ UNCHANGED <<entries, store>>
                /\ \A k \in DOMAIN entries : IsFirstOf(entries, k, name, surname) =>
                      IF entries[k].birthdate = None
                      THEN last'.err = "NotFoundError"
                      ELSE /\ last'.err = "ok"
                           /\ last'.age = AgeOn(entries[k].birthdate, today)]_vars

\* C9: every stored entry has a non-empty name and surname made only of ASCII
\* letters, digits and spaces, first character upper-cased and the rest
\* lower-cased, a phone of exactly 11 digits, and a birthdate that is absent
\* or a valid date written DD.MM.YYYY.
ValidName(t) ==
    /\ Len(t) >= 1
    /\ \A i \in 1..Len(t) : IsNameChar(t[i])
    /\ t[1] = upperChar(t[1])
    /\ \A i \in 2..Len(t) : t[i] = lowerChar(t[i])
ValidBirthdate(b) ==
    \/ b = None
    \/ /\ Len(b) = 10
       /\ \A i \in {1, 2, 4, 5, 7, 8, 9, 10} : IsDigit(b[i])
       /\ b[3] = "." /\ b[6] = "."
       /\ LET f == DateFields(b)
          IN f[3] >= 1 /\ f[2] \in 1..12 /\ f[1] \in 1..DaysInMonth(f[3], f[2])
C9_ValidEntries ==
    \A i \in DOMAIN entries :
        /\ ValidName(entries[i].name)
        /\ ValidName(entries[i].surname)
        /\ Len(entries[i].phone) = 11
        /\ \A j \in 1..Len(entries[i].phone) : IsDigit(entries[i].phone[j])
        /\ ValidBirthdate(entries[i].birthdate)

\* C10: a successful delete removes exactly one entry, the first one carrying
\* the given name and surname (case-insensitively), and leaves the others
\* unchanged and in order; afterwards find(name, surname) does not return the
\* removed entry (the list after the call is the list before it without
\* position k, so find can only return the entries that stayed).
C10_DeleteFirst ==
    [][\A name \in CoreArgs.lookNames, surname \in CoreArgs.lookSurnames :
          (DeleteCall(name, surname) /\ last'.err = "ok") =>
              \E k \in DOMAIN entries :
                  /\ IsFirstOf(entries, k, name, surname)
                  /\ entries' = RemoveAt(entries, k)
                  /\ Len(entries') = Len(entries) - 1]_vars

====
